---- MODULE Spec2Model ----
(***************************************************************************)
(* Model of the moving-average crossover trading bot.                      *)
(*                                                                         *)
(*   src/trading_bot.py       the live bot (CryptoTradingBot, Binance)     *)
(*   src/test_trading_bot.py  the simulation bot (digital balance ledger)  *)
(*                                                                         *)
(* The specifications share the variables:                                 *)
(*   Spec        the live bot's polling loop run_bot against an exchange   *)
(*   FairSpec    Spec, with the loop body and time.sleep always returning  *)
(*   StopSpec    Spec, with KeyboardInterrupt delivered from outside       *)
(*   SimSpec     the simulation bot's polling loop run_bot                 *)
(*   SignalSpec  calculate_signals applied to bounded close-price frames   *)
(*   LedgerSpec  place_order_simulation applied to the simulated ledger    *)
(*                                                                         *)
(* Arithmetic is exact.  Prices and balances are integers in the smallest  *)
(* unit of the model (quantity in 0.001 of the base asset, price in USDT   *)
(* per whole base asset, USDT balances in 0.001 USDT), so that             *)
(* cost = quantity * price carries no rounding.  Moving averages are kept  *)
(* as fractions [num, den] and compared by cross multiplication.  The      *)
(* rounding of binary floating point is not modelled.                      *)
(***************************************************************************)
EXTENDS Integers, Sequences, FiniteSets, TLC

VARIABLES
    \* ---- the exchange (environment of the live bot)
    klines,             \* closes of the latest candles the exchange holds, oldest first
    at_open,            \* the next poll falls exactly on the opening time of the last candle
    orders,             \* orders the exchange accepted, in order of acceptance
    \* ---- the live bot, src/trading_bot.py
    pc,                 \* "loop": top of while True; "sleep": in time.sleep(60);
                        \* "stopped": run_bot was left
    path,               \* how the last cycle ended: "normal" | "except" | "interrupt"
    rows,               \* rows of the frame fetched in the last cycle (FetchFailed: None)
    signals_read,       \* the last cycle read current_signal and previous_signal
    previous_signal,    \* df['signal'].iloc[-2] of the last cycle
    current_signal,     \* df['signal'].iloc[-1] of the last cycle
    balances,           \* result of check_account_balance in the last cycle
    attempt,            \* side handed to place_order in the last cycle, or "NONE"
    placed,             \* what place_order returned in the last cycle
    market_saved,       \* the last cycle wrote a market data csv
    order_files,        \* the orders saved as trading_results/order_<id>.json
    prev_cycle,         \* history: <<[current, attempt]>> of the iteration before this
                        \* one, <<>> if there was none or it read no signals
    since_fetch,        \* history: [fetched, sleeps]: a fetch was made, and the
                        \* seconds of each time.sleep since the last one
    failed_edge,        \* history: place_order failed for the candles that are still
                        \* the last two of the exchange
    log_files,          \* number of simulation_results/trade_log_<time>.json written
    \* ---- calculate_signals on a frame
    df,                 \* [close, MA_short, MA_long, signal], columns as sequences
    \* ---- the simulated ledger, src/test_trading_bot.py
    digital_balance,    \* [USDT |-> n, BTC |-> n]
    trade_log,          \* sequence of trade log entries
    warning,            \* warning logged by the last place_order_simulation, or "none"
    calls               \* history: every call of place_order_simulation, with its pre-state

exchangeVars == <<klines, at_open, orders>>
botVars == <<pc, path, rows, signals_read, previous_signal, current_signal, balances,
             attempt, placed, market_saved, order_files, prev_cycle, since_fetch,
             failed_edge, log_files>>
frameVars == <<df>>
ledgerVars == <<digital_balance, trade_log, warning, calls>>
vars == <<exchangeVars, botVars, frameVars, ledgerVars>>

----------------------------------------------------------------------------
(* Bounds and constants                                                    *)

\* Window lengths, scaled down from 20 and 50 (src/trading_bot.py:39-40); the
\* model keeps moving_avg_short < moving_avg_long.
moving_avg_short == 2
moving_avg_long == 4

\* Closing prices a candle can take.
Prices == {1, 2}

\* The exchange's history, as far back as a fetch of "moving_avg_long hours ago"
\* can reach: moving_avg_long candles, one more on the hour boundary.
MaxCandles == moving_avg_long + 1

\* The exchange accepts at most MaxOrders orders in a run.
MaxOrders == 2

\* A float that is not a number: a fraction with denominator 0.
NaN == [num |-> 0, den |-> 0]
IsNaN(a) == a.den = 0

\* Python's None, as a result value.
None == [none |-> TRUE]

SIDE_BUY == "BUY"
SIDE_SELL == "SELL"

\* self.symbol.replace('USDT', ''), for the symbol BTCUSDT
base_asset == "BTC"

----------------------------------------------------------------------------
(* calculate_signals                                                       *)

\* Sliding-window sum as pandas' rolling aggregation keeps it: add the entering
\* observation, remove the one that leaves the window.
RECURSIVE RollSum(_, _, _)
RollSum(close, window, i) ==
    IF i = 0 THEN 0
    ELSE RollSum(close, window, i - 1) + close[i]
         - (IF i > window THEN close[i - window] ELSE 0)

\* Series.rolling(window).mean(): NaN until `window` observations exist
\* (min_periods defaults to the window), then sum / window.
rolling_meanMinPeriods1(close, window) ==
    [i \in 1..Len(close) |->
        [num |-> RollSum(close, window, i), den |-> IF i < window THEN i ELSE window]]
rolling_mean(close, window) ==
    [i \in 1..Len(close) |->
        IF i < window THEN NaN
        ELSE [num |-> RollSum(close, window, i), den |-> window]]

\* a > b on floats: False when either side is NaN.
GtOrEqual(a, b) == ~IsNaN(a) /\ ~IsNaN(b) /\ a.num * b.den >= b.num * a.den
Gt(a, b) == ~IsNaN(a) /\ ~IsNaN(b) /\ a.num * b.den > b.num * a.den

\* df['signal'] = 0; then 1 where MA_short > MA_long; then -1 where MA_short < MA_long
signal_column(ma_short, ma_long) ==
    [i \in 1..Len(ma_short) |->
        IF Gt(ma_long[i], ma_short[i]) THEN -1
        ELSE IF Gt(ma_short[i], ma_long[i]) THEN 1
        ELSE 0]

\* calculate_signals(df): the frame with its three new columns, or None when
\* reading the last row raises (an empty frame).
calculate_signals(close) ==
    LET ma_s == rolling_mean(close, moving_avg_short)
        ma_l == rolling_mean(close, moving_avg_long)
    IN  IF Len(close) = 0 THEN None
        ELSE [close |-> close, MA_short |-> ma_s, MA_long |-> ma_l,
              signal |-> signal_column(ma_s, ma_l)]

----------------------------------------------------------------------------
(* The live bot: src/trading_bot.py                                        *)

\* self.quantity = 0.001, in units of 0.001 of the base asset
quantity == 1

FetchFailed == 0 - 1

\* The last n elements of a sequence (all of it when it is shorter).
LastRows(s, n) == IF Len(s) <= n THEN s ELSE SubSeq(s, Len(s) - n + 1, Len(s))

\* The candles that opened since "moving_avg_long hours ago": moving_avg_long of
\* them, and one more when the request falls exactly on an opening time.
WindowRowsAlwaysOneMore == moving_avg_long + 1
WindowRows == IF at_open THEN moving_avg_long + 1 ELSE moving_avg_long

\* get_historical_data(): the closes of those candles, as many as the exchange
\* has, or None when the request raises.
get_historical_data(fetch_ok) ==
    IF fetch_ok THEN [close |-> LastRows(klines, WindowRows)] ELSE None

\* check_account_balance(): the assets with a non-zero free or locked amount,
\* or None when the request raises.
AccountOutcomes == {None} \cup {[assets |-> a] : a \in SUBSET {"USDT", base_asset}}

\* `balances and asset in balances`
HasAssetAnyBalance(b, asset) == b # None /\ b.assets # {}
HasAsset(b, asset) == b # None /\ asset \in b.assets

\* the two edge tests of run_bot
IsBuySignalAnyRise(cur, prev) == cur = 1
IsBuySignal(cur, prev) == cur = 1 /\ prev = -1
IsSellSignal(cur, prev) == cur = -1 /\ prev = 1

\* place_order(side, quantity): submit a market order and save its json.
\*   exchange: "accepted" | "rejected" | "transport"; json_ok: the file write worked.
\* Returns the order, or None from the except clause.  With exchange =
\* "interrupted" a KeyboardInterrupt arrives when create_order has returned and
\* the json is not yet written: `except Exception` does not catch it and the call
\* never returns.
NotCalled == [called |-> FALSE]
Interrupted == [interrupted |-> TRUE]
place_order(side, qty, exchange, json_ok, ords, files) ==
    LET order == [orderId |-> Len(ords) + 1, side |-> side,
                  quantity |-> qty, status |-> "FILLED"]
    IN  IF exchange = "accepted"
        THEN [orders |-> Append(ords, order),
              order_files |-> IF json_ok THEN files \cup {order} ELSE files,
              result |-> IF json_ok THEN order ELSE None]
        ELSE IF exchange = "interrupted"
        THEN [orders |-> Append(ords, order), order_files |-> files,
              result |-> Interrupted]
        ELSE [orders |-> ords, order_files |-> files, result |-> None]

\* The side run_bot hands to place_order for a changed signal, "NONE" when it
\* places nothing: the edge tests and the balance guards.
order_side(cur, prev, bal) ==
    IF IsBuySignal(cur, prev)
    THEN (IF HasAsset(bal, "USDT") THEN SIDE_BUY ELSE "NONE")
    ELSE IF IsSellSignal(cur, prev)
    THEN (IF HasAsset(bal, base_asset) THEN SIDE_SELL ELSE "NONE")
    ELSE "NONE"

\* The locals of an iteration that fetched nothing.
NoCycle ==
    [path |-> "normal", rows |-> FetchFailed, signals_read |-> FALSE,
     previous_signal |-> 0, current_signal |-> 0, balances |-> NotCalled,
     attempt |-> "NONE", placed |-> NotCalled, market_saved |-> FALSE]

\* The locals of an iteration whose fetch failed: `if df is not None` skips
\* the body and the iteration goes to its sleep.
SkippedCycleRaises == [NoCycle EXCEPT !.path = "except"]
SkippedCycle == NoCycle

\* Where an iteration goes when its body is over: to time.sleep(60) on the normal
\* path and in the except clause alike; a KeyboardInterrupt leaves run_bot.
AfterPathStopsOnError(p) == IF p = "normal" THEN "sleep" ELSE "stopped"
AfterPathNoSleepOnError(p) ==
    IF p = "interrupt" THEN "stopped" ELSE IF p = "except" THEN "loop" ELSE "sleep"
AfterPath(p) == IF p = "interrupt" THEN "stopped" ELSE "sleep"

\* time.sleep(60), on both paths
SleepSeconds(p) == 60

\* The iteration reaches its time.sleep with locals c.
EndCycle(c, ords, files) ==
    /\ path' = c.path
    /\ rows' = c.rows
    /\ signals_read' = c.signals_read
    /\ previous_signal' = c.previous_signal
    /\ current_signal' = c.current_signal
    /\ balances' = c.balances
    /\ attempt' = c.attempt
    /\ placed' = c.placed
    /\ market_saved' = c.market_saved
    /\ orders' = ords
    /\ order_files' = files
    /\ pc' = AfterPath(c.path)
    /\ since_fetch' = [fetched |-> TRUE, sleeps |-> <<>>]
    /\ failed_edge' = (failed_edge \/ (c.attempt # "NONE" /\ c.placed = None))
    /\ UNCHANGED <<klines, at_open, prev_cycle, log_files, frameVars, ledgerVars>>

\* `if current_signal != previous_signal:` and what it guards.
ExchangeOutcomes == {"accepted", "rejected", "transport"}
OnSignals(got, cur, prev, outcomes) ==
    LET read == [got EXCEPT !.market_saved = TRUE, !.signals_read = TRUE,
                            !.previous_signal = prev, !.current_signal = cur]
    IN  IF cur = prev
        THEN EndCycle(read, orders, order_files)
        ELSE \E account \in AccountOutcomes :
             \E side \in {order_side(cur, prev, account)} :
                IF side = "NONE"
                THEN EndCycle([read EXCEPT !.balances = account], orders, order_files)
                ELSE \E exchange \in outcomes, json_ok \in BOOLEAN :
                        /\ exchange \in {"accepted", "interrupted"}
                              => Len(orders) < MaxOrders
                        /\ \E po \in {place_order(side, quantity, exchange, json_ok,
                                                  orders, order_files)} :
                              EndCycle([read EXCEPT !.balances = account,
                                                    !.attempt = side,
                                                    !.placed = po.result,
                                                    !.path = IF po.result = Interrupted
                                                             THEN "interrupt"
                                                             ELSE "normal"],
                                       po.orders, po.order_files)

\* One iteration of the while loop of run_bot, up to its time.sleep.
\*   fetch_ok   outcome of get_historical_data
\*   csv_ok     save_market_data could write its file
Iteration(outcomes) ==
    /\ pc = "loop"
    /\ \E fetch_ok \in BOOLEAN, csv_ok \in BOOLEAN :
       \E raw \in {get_historical_data(fetch_ok)} :
          IF raw = None
          THEN EndCycle(SkippedCycle, orders, order_files)
          ELSE \E frame \in {calculate_signals(raw.close)}, len \in {Len(raw.close)} :
               IF frame = None \/ ~csv_ok
               THEN \* save_market_data(None) raises, or its write does
                    EndCycle([NoCycle EXCEPT !.rows = len, !.path = "except"],
                             orders, order_files)
               ELSE IF len < 2
               THEN \* df['signal'].iloc[-2] raises
                    EndCycle([NoCycle EXCEPT !.rows = len, !.path = "except",
                                             !.market_saved = TRUE],
                             orders, order_files)
               ELSE OnSignals([NoCycle EXCEPT !.rows = len],
                              frame.signal[len], frame.signal[len - 1], outcomes)

RunCycle == Iteration(ExchangeOutcomes)

\* time.sleep(60) returns and the next iteration begins; every local of the
\* finished iteration is assigned again before it is read.  The history keeps
\* what the finished iteration saw.
Sleep ==
    /\ pc = "sleep"
    /\ pc' = "loop"
    /\ prev_cycle' = IF signals_read
                     THEN <<[current |-> current_signal, attempt |-> attempt]>>
                     ELSE <<>>
    /\ path' = NoCycle.path
    /\ rows' = NoCycle.rows
    /\ signals_read' = NoCycle.signals_read
    /\ previous_signal' = NoCycle.previous_signal
    /\ current_signal' = NoCycle.current_signal
    /\ balances' = NoCycle.balances
    /\ attempt' = NoCycle.attempt
    /\ placed' = NoCycle.placed
    /\ market_saved' = NoCycle.market_saved
    /\ at_open' = FALSE
    /\ since_fetch' = [since_fetch EXCEPT !.sleeps = Append(@, SleepSeconds(path))]
    /\ UNCHANGED <<klines, orders, order_files, failed_edge, log_files,
                   frameVars, ledgerVars>>

\* The exchange, between two polls: the candle in progress trades at a new
\* price, or it closes and the next candle opens, and the coming poll may fall
\* exactly on that opening time.
Tick ==
    /\ pc = "loop"
    /\ ~at_open
    /\ Len(klines) > 0
    /\ \E p \in Prices \ {klines[Len(klines)]} :
          klines' = [klines EXCEPT ![Len(klines)] = p]
    /\ UNCHANGED <<at_open, orders, botVars, frameVars, ledgerVars>>

NewCandle ==
    /\ pc = "loop"
    /\ ~at_open
    /\ \E p \in Prices : klines' = LastRows(Append(klines, p), MaxCandles)
    /\ at_open' \in BOOLEAN
    /\ failed_edge' = FALSE
    /\ UNCHANGED <<orders, pc, path, rows, signals_read, previous_signal,
                   current_signal, balances, attempt, placed, market_saved,
                   order_files, prev_cycle, since_fetch, log_files,
                   frameVars, ledgerVars>>

CloseSeqs(max) == UNION {[1..k -> Prices] : k \in 0..max}

\* A frame as get_historical_data returns it: closes, no computed column yet.
RawFrame(close) == [close |-> close, MA_short |-> <<>>, MA_long |-> <<>>, signal |-> <<>>]

BotIdle ==
    /\ orders = <<>>
    /\ pc = "loop"
    /\ path = NoCycle.path
    /\ rows = NoCycle.rows
    /\ signals_read = NoCycle.signals_read
    /\ previous_signal = NoCycle.previous_signal
    /\ current_signal = NoCycle.current_signal
    /\ balances = NoCycle.balances
    /\ attempt = NoCycle.attempt
    /\ placed = NoCycle.placed
    /\ market_saved = NoCycle.market_saved
    /\ order_files = {}
    /\ prev_cycle = <<>>
    /\ since_fetch = [fetched |-> FALSE, sleeps |-> <<>>]
    /\ failed_edge = FALSE
    /\ log_files = 0

LedgerIdle ==
    /\ digital_balance = [USDT |-> 0, BTC |-> 0]
    /\ trade_log = <<>>
    /\ warning = "none"
    /\ calls = <<>>

\* The live bot after __init__, facing an exchange with any recent history.
Init ==
    /\ klines \in CloseSeqs(MaxCandles)
    /\ at_open \in BOOLEAN
    /\ BotIdle
    /\ df = RawFrame(<<>>)
    /\ LedgerIdle

Next == RunCycle \/ Sleep \/ Tick \/ NewCandle

Spec == Init /\ [][Next]_vars

----------------------------------------------------------------------------
(* calculate_signals on its own: SignalSpec                                *)

\* Frames of up to MaxRows rows, over FramePrices.
MaxRows == moving_avg_long + 2
FramePrices == {1, 2, 3}
Frames == UNION {[1..k -> FramePrices] : k \in 0..MaxRows}

\* df = self.calculate_signals(df)
Calculate ==
    /\ IF df = None THEN FALSE ELSE df.signal = <<>>
    /\ df' = calculate_signals(df.close)
    /\ UNCHANGED <<exchangeVars, botVars, ledgerVars>>

\* The next poll fetches a frame with one more candle.
NewFrame ==
    /\ IF df = None THEN TRUE ELSE df.signal # <<>>
    /\ \E p \in FramePrices, close \in {IF df = None THEN <<>> ELSE df.close} :
          /\ Len(close) < MaxRows
          /\ df' = RawFrame(Append(close, p))
    /\ UNCHANGED <<exchangeVars, botVars, ledgerVars>>

SignalInit ==
    /\ klines = <<>>
    /\ at_open = FALSE
    /\ BotIdle
    /\ df \in {RawFrame(close) : close \in Frames}
    /\ LedgerIdle

SignalNext == Calculate \/ NewFrame

SignalSpec == SignalInit /\ [][SignalNext]_vars

----------------------------------------------------------------------------
(* The simulated ledger: place_order_simulation, LedgerSpec                *)
(*                                                                         *)
(* LedgerSpec applies the body of place_order_simulation to the bot's      *)
(* digital_balance and trade_log, as a method called with a side, a        *)
(* quantity and a price.  In src/test_trading_bot.py the def stands inside *)
(* calculate_signals, after its return statements, so run_bot itself       *)
(* never reaches this body.                                                *)

\* At most MaxCalls calls in a run.
MaxCalls == 3

\* initial_balance, in 0.001 USDT
InitialBalances == {0, 60000, 100000}
\* quantity, in 0.001 BTC
Quantities == {1, 2}
\* price, in USDT per BTC
LedgerPrices == {30000, 50000}
Sides == {SIDE_BUY, SIDE_SELL}

\* `self.digital_balance["USDT"] >= cost`
SufficientUSDTAnyFunds(bal, cost) == bal.USDT > 0
SufficientUSDT(bal, cost) == bal.USDT >= cost

\* `self.digital_balance[base_asset] >= quantity`
SufficientBaseAnyHolding(bal, qty) == bal.BTC > 0
SufficientBase(bal, qty) == bal.BTC >= qty

\* USDT -= cost; base += quantity
BuyBalanceDebitsPrice(bal, qty, price) ==
    [USDT |-> bal.USDT - price, BTC |-> bal.BTC + qty]
BuyBalance(bal, qty, price) ==
    [USDT |-> bal.USDT - qty * price, BTC |-> bal.BTC + qty]

\* base -= quantity; USDT += quantity * price
SellBalanceNoCredit(bal, qty, price) ==
    [USDT |-> bal.USDT, BTC |-> bal.BTC - qty]
SellBalance(bal, qty, price) ==
    [USDT |-> bal.USDT + qty * price, BTC |-> bal.BTC - qty]

\* self.trade_log.append({...}); "balance" is dict(self.digital_balance), a copy
\* of the balances after the trade.
AppendTradeOverwrites(log, type, qty, price, bal) ==
    <<[type |-> type, quantity |-> qty, price |-> price, balance |-> bal]>>
AppendTradeAliased(log, type, qty, price, bal) ==
    Append([i \in 1..Len(log) |-> [log[i] EXCEPT !.balance = bal]],
           [type |-> type, quantity |-> qty, price |-> price, balance |-> bal])
AppendTrade(log, type, qty, price, bal) ==
    Append(log, [type |-> type, quantity |-> qty, price |-> price, balance |-> bal])

\* place_order_simulation(side, quantity, price) on balances bal and log `log`:
\* the new balances and log, and the warning it logs ("none" when it logs none).
place_order_simulation(side, qty, price, bal, log) ==
    IF side = "BUY"
    THEN IF SufficientUSDT(bal, qty * price)
         THEN LET after == BuyBalance(bal, qty, price)
              IN  [digital_balance |-> after,
                   trade_log |-> AppendTrade(log, "BUY", qty, price, after),
                   warning |-> "none"]
         ELSE [digital_balance |-> bal, trade_log |-> log,
               warning |-> "Not enough USDT for the simulated BUY order."]
    ELSE IF side = "SELL"
    THEN IF SufficientBase(bal, qty)
         THEN LET after == SellBalance(bal, qty, price)
              IN  [digital_balance |-> after,
                   trade_log |-> AppendTrade(log, "SELL", qty, price, after),
                   warning |-> "none"]
         ELSE [digital_balance |-> bal, trade_log |-> log,
               warning |-> "Not enough BTC for the simulated SELL order."]
    ELSE [digital_balance |-> bal, trade_log |-> log, warning |-> "none"]

\* self.place_order_simulation(side, quantity, price)
Apply ==
    /\ Len(calls) < MaxCalls
    /\ \E side \in Sides, qty \in Quantities, price \in LedgerPrices :
       \E r \in {place_order_simulation(side, qty, price, digital_balance, trade_log)} :
          /\ digital_balance' = r.digital_balance
          /\ trade_log' = r.trade_log
          /\ warning' = r.warning
          /\ calls' = Append(calls, [side |-> side, quantity |-> qty, price |-> price,
                                     before |-> digital_balance,
                                     log_before |-> trade_log])
    /\ UNCHANGED <<exchangeVars, botVars, frameVars>>

\* __init__: {"USDT": initial_balance, "BTC": 0} and an empty trade log
LedgerInit ==
    /\ klines = <<>>
    /\ at_open = FALSE
    /\ BotIdle
    /\ df = RawFrame(<<>>)
    /\ \E initial_balance \in InitialBalances :
          digital_balance = [USDT |-> initial_balance, BTC |-> 0]
    /\ trade_log = <<>>
    /\ warning = "none"
    /\ calls = <<>>

LedgerNext == Apply

LedgerSpec == LedgerInit /\ [][LedgerNext]_vars

----------------------------------------------------------------------------
(* Properties of the polling loop (Spec)                                   *)

AfterCycle == pc = "sleep" /\ signals_read

\* check_account_balance was called and did not report the asset.
BalanceLacks(asset) == balances # NotCalled /\ ~HasAsset(balances, asset)

\* C1: crossover edges fire exactly once per transition.  With p the signal of the
\* preceding cycle and c the signal of this cycle: a change DOWN -> UP places a
\* BUY, a change UP -> DOWN places a SELL (unless the account lacks the asset to
\* spend), and an unchanged signal places nothing.
C1_EdgesFireOncePerTransition ==
    (AfterCycle /\ Len(prev_cycle) = 1) =>
        LET p == prev_cycle[1].current
            c == current_signal
        IN  /\ (p = -1 /\ c = 1) => (attempt = SIDE_BUY \/ BalanceLacks("USDT"))
            /\ (p = 1 /\ c = -1) => (attempt = SIDE_SELL \/ BalanceLacks(base_asset))
            /\ (p = c) => attempt = "NONE"

\* C2: run_bot attempts a BUY only for the pair (previous, current) = (-1, 1), a
\* SELL only for (1, -1), and nothing for any other pair or when no signal was read.
C2_OrderOnlyOnRecognisedEdge ==
    pc = "sleep" =>
        /\ attempt \in {"NONE", SIDE_BUY, SIDE_SELL}
        /\ attempt = SIDE_BUY =>
              signals_read /\ previous_signal = -1 /\ current_signal = 1
        /\ attempt = SIDE_SELL =>
              signals_read /\ previous_signal = 1 /\ current_signal = -1
        /\ previous_signal = 0 \/ current_signal = 0 \/ previous_signal = current_signal
              => attempt = "NONE" /\ placed = NotCalled

\* A BUY was attempted on the edge DOWN -> UP.
C2_Witness ==
    /\ AfterCycle
    /\ previous_signal = -1 /\ current_signal = 1
    /\ attempt = SIDE_BUY

\* C8: whenever control is back in the polling loop, every trade that was applied
\* (every order the exchange accepted) has its record in storage.
C8_AppliedTradeIsRecorded ==
    pc = "sleep" => \A i \in 1..Len(orders) : orders[i] \in order_files

\* C9: in every cycle after the first, the previous signal used for transition
\* detection is the current signal of the immediately preceding cycle.
C9_PreviousIsCurrentOfPriorCycle ==
    (AfterCycle /\ Len(prev_cycle) = 1) => previous_signal = prev_cycle[1].current

----------------------------------------------------------------------------
(* Properties of calculate_signals (SignalSpec)                            *)

RECURSIVE SumRange(_, _, _)
SumRange(close, lo, hi) ==
    IF lo > hi THEN 0 ELSE close[lo] + SumRange(close, lo + 1, hi)

\* The sum of the last n closes up to row i.
SumOfLast(close, i, n) == SumRange(close, i - n + 1, i)

\* mean of the last S closes  <cmp>  mean of the last L closes, at row i >= L
ShortAbove(close, i) ==
    SumOfLast(close, i, moving_avg_short) * moving_avg_long
        > SumOfLast(close, i, moving_avg_long) * moving_avg_short
ShortBelow(close, i) ==
    SumOfLast(close, i, moving_avg_short) * moving_avg_long
        < SumOfLast(close, i, moving_avg_long) * moving_avg_short

Computed == IF df = None THEN FALSE ELSE df.signal # <<>>

\* C10: at every row i the signal is 1 iff the mean of the last S closes exceeds
\* the mean of the last L closes, -1 iff it is smaller, and 0 iff the means are
\* equal or fewer than S or fewer than L closes exist up to i.
C10_SignalComparesWindowMeans ==
    Computed =>
        /\ DOMAIN df.signal = 1..Len(df.close)
        /\ \A i \in 1..Len(df.close) :
              LET enough == i >= moving_avg_short /\ i >= moving_avg_long
              IN  /\ df.signal[i] \in {-1, 0, 1}
                  /\ df.signal[i] = 1 <=> (enough /\ ShortAbove(df.close, i))
                  /\ df.signal[i] = -1 <=> (enough /\ ShortBelow(df.close, i))
                  /\ df.signal[i] = 0 <=>
                        (~enough \/ (~ShortAbove(df.close, i) /\ ~ShortBelow(df.close, i)))

\* A frame whose rows show UP, DOWN, FLAT for lack of data, and FLAT for equal means.
C10_Witness ==
    /\ Computed
    /\ \E i, j, k \in 1..Len(df.close) :
          /\ df.signal[i] = 1
          /\ df.signal[j] = -1
          /\ k >= moving_avg_long /\ df.signal[k] = 0
    /\ df.signal[1] = 0

----------------------------------------------------------------------------
(* Properties of the simulated ledger (LedgerSpec)                         *)

LastCall == calls[Len(calls)]
Cost(c) == c.quantity * c.price

\* The funds the call needs were there when it was made.
Funded(c) ==
    IF c.side = "BUY" THEN c.before.USDT >= Cost(c) ELSE c.before.BTC >= c.quantity

\* The balances a funded call must leave.
ExpectedBalance(c) ==
    IF c.side = "BUY"
    THEN [USDT |-> c.before.USDT - Cost(c), BTC |-> c.before.BTC + c.quantity]
    ELSE [USDT |-> c.before.USDT + Cost(c), BTC |-> c.before.BTC - c.quantity]

C4_BalancesNonNegative ==
    digital_balance.USDT >= 0 /\ digital_balance.BTC >= 0

\* A SELL of more than the holding was asked for, after a BUY that left less USDT
\* than either price.
C4_Witness ==
    /\ calls # <<>>
    /\ LastCall.side = "SELL"
    /\ LastCall.before.BTC > 0
    /\ LastCall.before.BTC < LastCall.quantity
    /\ \A price \in LedgerPrices : digital_balance.USDT < price

C6_ValueConserved ==
    (calls # <<>> /\ Funded(LastCall)) =>
        digital_balance.USDT + digital_balance.BTC * LastCall.price
            = LastCall.before.USDT + LastCall.before.BTC * LastCall.price

\* A funded SELL at another price than the BUY before it.
C6_Witness ==
    /\ Len(calls) >= 2
    /\ LastCall.side = "SELL" /\ Funded(LastCall)
    /\ calls[Len(calls) - 1].side = "BUY" /\ Funded(calls[Len(calls) - 1])
    /\ calls[Len(calls) - 1].price # LastCall.price

\* The log the calls made so far must have produced.
RECURSIVE ExpectedLog(_)
ExpectedLog(cs) ==
    IF cs = <<>> THEN <<>>
    ELSE LET c == cs[Len(cs)]
             rest == ExpectedLog(SubSeq(cs, 1, Len(cs) - 1))
         IN  IF Funded(c)
             THEN Append(rest, [type |-> c.side, quantity |-> c.quantity,
                                price |-> c.price, balance |-> ExpectedBalance(c)])
             ELSE rest

\* C7: the trade log holds exactly one entry per successful apply, in call order,
\* each with the type, quantity, price and resulting balances of that apply; a
\* failed apply adds none.
C7_OneLogEntryPerSuccessfulApply ==
    trade_log = ExpectedLog(calls)

\* Two applies succeeded and one failed.
C7_Witness ==
    /\ Len(trade_log) = 2
    /\ Len(calls) = 3

\* C16: a trade log entry is immutable once written.  The log each apply found is
\* a prefix of the log now: its entries keep their place, type, quantity, price
\* and balance snapshot through every later apply, whatever the balances became.
C16_LogEntriesImmutable ==
    \A k \in 1..Len(calls) :
        /\ Len(calls[k].log_before) <= Len(trade_log)
        /\ calls[k].log_before = SubSeq(trade_log, 1, Len(calls[k].log_before))

\* Two entries, the first with a snapshot that differs from the balances now.
C16_Witness ==
    /\ Len(trade_log) >= 2
    /\ trade_log[1].balance # digital_balance
    /\ trade_log[1].balance # trade_log[2].balance

-----------------------------------------------------------------------------
(* The simulation bot's loop: src/test_trading_bot.py run_bot, SimSpec     *)

\* get_historical_data draws moving_avg_long + 10 closes anew in every iteration;
\* the extra rows are scaled down with the windows (the two signals read depend
\* on the last moving_avg_long + 1 closes only)
SimExtraRows == 2
SimRows == moving_avg_long + SimExtraRows
SimFrames == [1..SimRows -> Prices]

\* trade log files written, at most
MaxLogFiles == 3

\* calculate_signals of the simulation bot: the three columns, and no read of a row
sim_calculate_signals(close) ==
    LET ma_s == rolling_mean(close, moving_avg_short)
        ma_l == rolling_mean(close, moving_avg_long)
    IN  [close |-> close, MA_short |-> ma_s, MA_long |-> ma_l,
         signal |-> signal_column(ma_s, ma_l)]

\* Whether the class has the attribute place_order_simulation: its def statement
\* stands inside calculate_signals, after both of its return statements, and is
\* never executed.
PlaceOrderSimulationAtClassLevel == TRUE
HasPlaceOrderSimulation == FALSE

AttributeError == [raised |-> "AttributeError"]

\* The side run_bot calls place_order_simulation with
sim_order_side(cur, prev) ==
    IF cur = prev THEN "NONE"
    ELSE IF cur = 1 /\ prev = -1 THEN "BUY"
    ELSE IF cur = -1 /\ prev = 1 THEN "SELL"
    ELSE "NONE"

\* The iteration ends with locals c, the ledger as in r, and `saved` trade log
\* files written.
SimEndCycle(c, r, saved) ==
    /\ path' = c.path
    /\ rows' = c.rows
    /\ signals_read' = c.signals_read
    /\ previous_signal' = c.previous_signal
    /\ current_signal' = c.current_signal
    /\ balances' = c.balances
    /\ attempt' = c.attempt
    /\ placed' = c.placed
    /\ market_saved' = c.market_saved
    /\ pc' = AfterPath(c.path)
    /\ since_fetch' = [fetched |-> TRUE, sleeps |-> <<>>]
    /\ log_files' = log_files + saved
    /\ digital_balance' = r.digital_balance
    /\ trade_log' = r.trade_log
    /\ warning' = r.warning
    /\ calls' = r.calls
    /\ UNCHANGED <<exchangeVars, order_files, prev_cycle, failed_edge, frameVars>>

\* save_trade_log then time.sleep(60); an error writing the file goes to the
\* except clause.
SimSave(c, r) ==
    \E save_ok \in BOOLEAN :
        IF save_ok
        THEN log_files < MaxLogFiles /\ SimEndCycle(c, r, 1)
        ELSE SimEndCycle([c EXCEPT !.path = "except"], r, 0)

\* One iteration of the simulation bot's while True.
SimRunCycle ==
    /\ pc = "loop"
    /\ \E close \in SimFrames :
       \E frame \in {sim_calculate_signals(close)} :
       \E cur \in {frame.signal[SimRows]}, prev \in {frame.signal[SimRows - 1]} :
       \E side \in {sim_order_side(cur, prev)} :
       \E read \in {[NoCycle EXCEPT !.rows = SimRows, !.signals_read = TRUE,
                                    !.previous_signal = prev,
                                    !.current_signal = cur, !.attempt = side]},
          ledger \in {[digital_balance |-> digital_balance, trade_log |-> trade_log,
                       warning |-> warning, calls |-> calls]} :
          IF side = "NONE"
          THEN SimSave(read, ledger)
          ELSE IF ~HasPlaceOrderSimulation
          THEN SimEndCycle([read EXCEPT !.path = "except", !.placed = AttributeError],
                           ledger, 0)
          ELSE /\ Len(calls) < MaxCalls
               /\ \E r \in {place_order_simulation(side, quantity, close[SimRows],
                                                   digital_balance, trade_log)} :
                     SimSave([read EXCEPT !.placed = None],
                             [digital_balance |-> r.digital_balance,
                              trade_log |-> r.trade_log,
                              warning |-> r.warning,
                              calls |-> Append(calls,
                                  [side |-> side, quantity |-> quantity,
                                   price |-> close[SimRows],
                                   before |-> digital_balance,
                                   log_before |-> trade_log])])

\* The simulation bot after __init__
SimInit == LedgerInit

SimNext == SimRunCycle \/ Sleep

SimSpec == SimInit /\ [][SimNext]_vars

-----------------------------------------------------------------------------
(* The live bot's loop: errors, sleeps and stops                           *)

\* An iteration of the loop: from the top of while True to its end.
CycleStep == pc = "loop" /\ pc' # "loop"

\* C11: a failed fetch is not fatal and has no effect.  An iteration whose
\* get_historical_data returned None computes no signal, queries no balance, places
\* no order, writes no market data and no order file, and goes to its sleep on the
\* normal path, from where the next iteration starts.
C11_FailedFetchHasNoEffect ==
    [][/\ (CycleStep /\ rows' = FetchFailed) =>
            /\ pc' = "sleep" /\ path' = "normal"
            /\ ~signals_read' /\ previous_signal' = 0 /\ current_signal' = 0
            /\ balances' = NotCalled
            /\ attempt' = "NONE" /\ placed' = NotCalled
            /\ ~market_saved'
            /\ orders' = orders /\ order_files' = order_files
       /\ (pc = "sleep" /\ rows = FetchFailed) => pc' = "loop"]_vars

\* A fetch failed after an earlier iteration had an order accepted and recorded.
C11_Witness ==
    pc = "sleep" /\ rows = FetchFailed /\ orders # <<>> /\ order_files # {}

\* The loop body returns or raises, and time.sleep(60) returns.
FairSpec == Spec /\ WF_vars(RunCycle) /\ WF_vars(Sleep)

\* An iteration is over and something in it failed: the fetch, calculate_signals
\* or save_market_data, the reads of the signals, the balance query or the order.
ErrorInCycle ==
    /\ pc # "loop"
    /\ \/ rows = FetchFailed
       \/ path = "except"
       \/ balances = None
       \/ placed = None

\* C12: no error ends the loop.  The loop has no terminal state: at every moment,
\* so also after an iteration in which the fetch, the signal computation, the
\* balance check or the order placement failed, it will again be at the top of
\* while True and will again run an iteration to its sleep.
C12_ErrorsNeverEndTheLoop ==
    /\ []<>(pc = "loop")
    /\ []<>(pc = "sleep")

\* An iteration ended in the except clause after an earlier one's order had failed.
C12_Witness == ErrorInCycle /\ pc = "sleep" /\ path = "except" /\ failed_edge

\* The orders the exchange accepted.
AcceptedOrders == {orders[i] : i \in 1..Len(orders)}

\* C13: in live mode an order record exists for exactly the accepted orders.  When
\* control is back in the loop every accepted order has its record and there is no
\* other record, and place_order returned an order exactly when that order is the
\* last one accepted and is recorded.
C13_RecordForExactlyAcceptedOrders ==
    pc = "sleep" =>
        /\ order_files = AcceptedOrders
        /\ (attempt # "NONE" /\ placed # None) =>
              (orders # <<>> /\ placed = orders[Len(orders)] /\ placed \in order_files)

Interrupt ==
    /\ pc \in {"loop", "sleep"}
    /\ pc' = "stopped"
    /\ UNCHANGED <<exchangeVars, path, rows, signals_read, previous_signal,
                   current_signal, balances, attempt, placed, market_saved,
                   order_files, prev_cycle, since_fetch, failed_edge, log_files,
                   frameVars, ledgerVars>>

InterruptedOrder == Iteration({"interrupted"}) /\ pc' = "stopped"

StopNext == Next \/ Interrupt \/ InterruptedOrder

StopSpec == Init /\ [][StopNext]_vars

\* C17: the loop stops only between applies.  When run_bot has stopped, no order
\* is half-applied: it did not stop inside place_order with the order accepted by
\* the exchange and its record not written.
C17_NeverStopsHalfApplied ==
    pc = "stopped" =>
        /\ path # "interrupt"
        /\ placed # Interrupted
        /\ (attempt # "NONE" /\ placed # None) =>
              (orders # <<>> /\ orders[Len(orders)] \in order_files)

\* C18: every iteration sleeps exactly once, for 60 seconds, before the next fetch.
\* In the sleep of an iteration nothing has been slept since its fetch; at the top
\* of the loop, once a fetch was made, exactly one sleep of 60 seconds lies behind,
\* on the normal path and on the except path alike.
C18_OneSleepBetweenFetches ==
    /\ pc = "sleep" => since_fetch = [fetched |-> TRUE, sleeps |-> <<>>]
    /\ (pc = "loop" /\ since_fetch.fetched) => since_fetch.sleeps = <<60>>
    /\ pc \in {"loop", "sleep"}

\* Back at the top of the loop after an iteration against an exchange without
\* candles: its fetch failed, or its empty frame sent it to the except clause.
C18_Witness ==
    /\ pc = "loop" /\ since_fetch.fetched /\ since_fetch.sleeps = <<60>>
    /\ Len(klines) = 0

\* C20: with at most moving_avg_long rows of history the live bot places no order.
\* After an iteration whose frame had that many rows or fewer: no order was
\* attempted; with fewer rows than moving_avg_long both signals read are 0, with
\* exactly moving_avg_long the previous signal is 0, and with fewer than 2 rows the
\* iteration ended in the except clause.
C20_ShortHistoryPlacesNoOrder ==
    (pc = "sleep" /\ rows # FetchFailed /\ rows <= moving_avg_long) =>
        /\ attempt = "NONE" /\ placed = NotCalled
        /\ rows < moving_avg_long => (previous_signal = 0 /\ current_signal = 0)
        /\ rows = moving_avg_long => previous_signal = 0
        /\ rows < 2 => (path = "except" /\ ~signals_read)

\* A frame of exactly moving_avg_long rows with the short mean above the long one:
\* the signal changed from 0 to 1, the balance was queried, no order was attempted.
C20_Witness ==
    /\ pc = "sleep" /\ rows = moving_avg_long
    /\ current_signal = 1 /\ previous_signal = 0
    /\ HasAsset(balances, "USDT")
    /\ attempt = "NONE"

\* check_account_balance was called and failed, or returned balances without
\* the asset.
Absent(asset) ==
    IF balances = NotCalled THEN FALSE
    ELSE IF balances = None THEN TRUE
    ELSE asset \notin balances.assets

\* C21: the live bot submits at most one order per iteration; it submits none in
\* an iteration whose balance check failed or did not report the asset to spend
\* (USDT for a BUY, the base asset for a SELL); and it queries the balance only in
\* iterations whose two signals differ.
C21_OrderNeedsTheAssetToSpend ==
    /\ [](pc # "loop" =>
            /\ balances # NotCalled =>
                  (signals_read /\ current_signal # previous_signal)
            /\ balances = None => (attempt = "NONE" /\ placed = NotCalled)
            /\ attempt = SIDE_BUY => ~Absent("USDT")
            /\ attempt = SIDE_SELL => ~Absent(base_asset)
            /\ attempt # "NONE" => balances # NotCalled)
    /\ [][CycleStep =>
            /\ Len(orders') <= Len(orders) + 1
            /\ attempt' = "NONE" =>
                  (orders' = orders /\ order_files' = order_files)]_vars

\* The edge UP -> DOWN with an account that holds USDT and no base asset: the
\* balance was queried and no order was submitted.
C21_Witness ==
    /\ pc = "sleep" /\ previous_signal = 1 /\ current_signal = -1
    /\ balances = [assets |-> {"USDT"}]
    /\ attempt = "NONE" /\ placed = NotCalled

-----------------------------------------------------------------------------
(* The simulation bot's loop: claims                                       *)

\* C14: every recognised edge reaches the ledger.  After an iteration whose signal
\* pair is DOWN -> UP (UP -> DOWN), place_order_simulation has been invoked in it,
\* once, with side BUY (SELL) and the configured quantity.
C14_EdgeReachesLedger ==
    (AfterCycle /\ previous_signal # current_signal
                /\ previous_signal # 0 /\ current_signal # 0) =>
        /\ attempt = (IF current_signal = 1 THEN "BUY" ELSE "SELL")
        /\ placed # AttributeError
        /\ calls # <<>>
        /\ calls[Len(calls)].side = attempt
        /\ calls[Len(calls)].quantity = quantity

\* C19: the simulation bot never trades.  In every state of run_bot the trade log
\* is empty, no base asset is held and place_order_simulation was never applied;
\* no step changes the balances from what __init__ set; and an iteration that
\* detects an edge ends in the except clause with AttributeError and writes no
\* trade log file.
C19_SimulationNeverTrades ==
    /\ [](/\ trade_log = <<>>
          /\ calls = <<>>
          /\ digital_balance.BTC = 0
          /\ digital_balance.USDT \in InitialBalances
          /\ (pc # "loop" /\ attempt # "NONE") =>
                (path = "except" /\ placed = AttributeError))
    /\ [][/\ digital_balance' = digital_balance
          /\ (CycleStep /\ attempt' # "NONE") => log_files' = log_files]_vars

\* An edge was detected with funds for the trade, after an earlier iteration had
\* written a trade log file.
C19_Witness ==
    /\ pc = "sleep" /\ attempt = "BUY" /\ path = "except"
    /\ digital_balance.USDT > 0
    /\ log_files > 0

====
